---- MODULE Spec2Model ----
(***************************************************************************)
(* A model of the NATS message-bus handler of the BOSH agent               *)
(* (src/mbus/nats_handler.go): the handler registry and its mutex, the     *)
(* subscription callback that fans a message out to the registered         *)
(* handlers, Start/Run/Stop/Send on the controlling thread, and the audit  *)
(* (CEF) log written for every handler invocation.                         *)
(***************************************************************************)
EXTENDS Integers, Sequences, FiniteSets, TLC

VARIABLES
    heap,          \* backing arrays of the handlerFuncs slices, by array id
    handlerFuncs,  \* h.handlerFuncs: the slice header [arr, len, cap]
    lockHolder,    \* h.handlerFuncsLock: the thread holding it, or NoThread
    app,           \* per appending thread: its RegisterAdditionalFunc call
    del,           \* per delivery thread: its run of the subscription callback
    ctl,           \* the controlling thread: Start / Run / Send / Stop
    client,        \* the yagnats client: connection, subscriptions, call counts
    settings,      \* what settingsService.GetSettings() returns now
    crashed,       \* a goroutine panicked: the process is gone
    hist           \* history: completed appends, and the calls left in this run

vars == <<heap, handlerFuncs, lockHolder, app, del, ctl, client, settings, crashed, hist>>

----------------------------------------------------------------------------
(* Bounds of the model.                                                    *)

MaxCalls == 3
MaxDeliveries == 2
MaxSettingsUpdates == 1

(* Program constants.                                                      *)

natsConnectionMaxRetries == 4
publishMaxAttempts == 3

----------------------------------------------------------------------------
(* Threads and handler functions.                                          *)

NoThread == <<"none", 0>>
Controller == <<"ctl", 0>>
Registrants == {<<"reg", 1>>, <<"reg", 2>>}
MoreRegistrants == Registrants \cup {<<"reg", 3>>}
Deliverers == {<<"del", 1>>, <<"del", 2>>}

NilFunc == <<"nil", 0>>
StartFunc == <<"func", 0>>
FuncOf(t) == IF t = Controller THEN StartFunc ELSE <<"func", t[2]>>

----------------------------------------------------------------------------
(* Go slices: h.handlerFuncs is a header over a backing array.             *)

NilSlice == [arr |-> 0, len |-> 0, cap |-> 0]

\* The elements a slice header denotes, read from the heap now.
SliceContents(hp, s) ==
    IF s.len = 0 THEN <<>> ELSE SubSeq(hp[s.arr], 1, s.len)

growslice(oldcap) == IF oldcap = 0 THEN 1 ELSE 2 * oldcap

appendReplaces(hp, s, f) ==
    [heap |-> Append(hp, <<f>>),
     hdr  |-> [arr |-> Len(hp) + 1, len |-> 1, cap |-> 1]]

\* append(s, f): in place when there is spare capacity, else into a fresh,
\* doubled array holding a copy of the old elements.  Returns the new heap
\* and the new header.
append(hp, s, f) ==
    IF s.len < s.cap
    THEN [heap |-> [hp EXCEPT ![s.arr] = [@ EXCEPT ![s.len + 1] = f]],
          hdr  |-> [s EXCEPT !.len = s.len + 1]]
    ELSE LET newcap == growslice(s.cap)
             old    == SliceContents(hp, s)
             fresh  == [i \in 1..newcap |->
                          IF i <= s.len THEN old[i]
                          ELSE IF i = s.len + 1 THEN f ELSE NilFunc]
         IN [heap |-> Append(hp, fresh),
             hdr  |-> [arr |-> Len(hp) + 1, len |-> s.len + 1, cap |-> newcap]]

----------------------------------------------------------------------------
(* sync.Mutex                                                              *)

CanLockNoMutex(holder) == TRUE

\* Lock() returns only when nobody holds the mutex.
CanLock(holder) == holder = NoThread

UnlockMissing(holder) == holder

\* Unlock(): nobody holds the mutex.
Unlock(holder) == NoThread

----------------------------------------------------------------------------
(* Settings (settingsService.GetSettings()).  The bus URL is kept in the   *)
(* parts url.Parse would find in it.                                       *)

NoPort == ""

\* parses: url.Parse succeeds;  hostname, port: the parts of natsURL.Host;
\* user: "none" (no user-info), "userpass" (user:secret@), "userempty"
\* (user:@, a password that is set and empty), "useronly" (user@),
\* "passonly" (:secret@, an empty username).
GoodURL == [parses |-> TRUE, hostname |-> "10.0.0.1", port |-> "4222", user |-> "userpass"]
NameURL == [parses |-> TRUE, hostname |-> "nats.example", port |-> "4222", user |-> "none"]
NoPortURL == [parses |-> TRUE, hostname |-> "nats.example", port |-> NoPort, user |-> "none"]
UserOnlyURL == [parses |-> TRUE, hostname |-> "10.0.0.1", port |-> "4222", user |-> "useronly"]
BadURL == [parses |-> FALSE, hostname |-> "", port |-> NoPort, user |-> "none"]
UserEmptyURL == [GoodURL EXCEPT !.user = "userempty"]
PassOnlyURL == [GoodURL EXCEPT !.user = "passonly"]

\* user.Password(): the password and whether one is set.
Password(user) ==
    [password |-> IF user \in {"userpass", "passonly"} THEN "secret" ELSE "",
     isSet    |-> user \in {"userpass", "passonly", "userempty"}]

\* user.Username()
Username(user) == IF user \in {"userpass", "userempty", "useronly"} THEN "user" ELSE ""

\* tls: "off" (mutual TLS not enabled), "ok", "badCA" (the CA PEM does not
\* parse), "badKey" (certificate and key do not parse).
MkSettings(u, t, a) == [url |-> u, tls |-> t, agentID |-> a]

GoodSettings == MkSettings(GoodURL, "off", "abc123")

SettingsChoices ==
    { GoodSettings,
      MkSettings(GoodURL, "off", "new456"),
      MkSettings(NameURL, "ok", "abc123"),
      MkSettings(NoPortURL, "off", "abc123"),
      MkSettings(UserOnlyURL, "off", "abc123"),
      MkSettings(GoodURL, "badCA", "abc123"),
      MkSettings(BadURL, "off", "abc123") }

\* natsURL.Host: "hostname:port", or "hostname" alone without a port.
\* strings.Split(Host, ":") gives these parts.
HostSplit(url) ==
    IF url.port = NoPort THEN <<url.hostname>> ELSE <<url.hostname, url.port>>

\* net.ParseIP(ip) != nil
IsLiteralIP(host) == host \in {"10.0.0.1"}

----------------------------------------------------------------------------
(* VerifyPeerCertificate.  A common name is the sequence of its            *)
(* characters; a certificate is its subject common name; a chain is a      *)
(* sequence of certificates, leaf first.                                   *)

LowerCase ==
    { "a", "b", "c", "d", "e", "f", "g", "h", "i", "j", "k", "l", "m",
      "n", "o", "p", "q", "r", "s", "t", "u", "v", "w", "x", "y", "z" }
UpperCase ==
    { "A", "B", "C", "D", "E", "F", "G", "H", "I", "J", "K", "L", "M",
      "N", "O", "P", "Q", "R", "S", "T", "U", "V", "W", "X", "Y", "Z" }
Digits == { "0", "1", "2", "3", "4", "5", "6", "7", "8", "9" }

\* The character class [a-zA-Z0-9*\-] of the pattern.
NameClass == LowerCase \cup UpperCase \cup Digits \cup {"*", "-"}

\* Pattern items: the starred class, the dot (any character but a
\* newline), a literal character.
StarClass == [kind |-> "star", c |-> ""]
AnyChar == [kind |-> "any", c |-> ""]
Lit(c) == [kind |-> "lit", c |-> c]
Lits(cs) == [i \in 1..Len(cs) |-> Lit(cs[i])]

NatsChars == <<"n", "a", "t", "s">>
BoshInternalChars == <<"b", "o", "s", "h", "-", "i", "n", "t", "e", "r", "n", "a", "l">>

\* "^[a-zA-Z0-9*\\-]*.nats.bosh-internal$": both dots are the regular
\* expression's dot.
CommonNamePattern ==
    <<StarClass, AnyChar>> \o Lits(NatsChars) \o <<AnyChar>> \o Lits(BoshInternalChars)

\* Whether the items of pat from i on match the characters of s from j on
\* up to the end of s (the pattern is anchored at both ends).
RECURSIVE MatchFrom(_, _, _, _)
MatchFrom(pat, i, s, j) ==
    IF i > Len(pat) THEN j > Len(s)
    ELSE IF pat[i].kind = "star"
    THEN \/ MatchFrom(pat, i + 1, s, j)
         \/ j <= Len(s) /\ s[j] \in NameClass /\ MatchFrom(pat, i, s, j + 1)
    ELSE IF pat[i].kind = "any"
    THEN j <= Len(s) /\ s[j] # "\n" /\ MatchFrom(pat, i + 1, s, j + 1)
    ELSE j <= Len(s) /\ s[j] = pat[i].c /\ MatchFrom(pat, i + 1, s, j + 1)

\* regexp.MatchString(pattern, commonName)
MatchString(pat, s) == MatchFrom(pat, 1, s, 1)

\* VerifyPeerCertificate(_, verifiedChains): "nil" when the leaf of some
\* non-empty chain matches, else "error".
VerifyPeerCertificate(verifiedChains) ==
    IF \E k \in 1..Len(verifiedChains) :
          /\ Len(verifiedChains[k]) # 0
          /\ MatchString(CommonNamePattern, verifiedChains[k][1])
    THEN "nil" ELSE "error"

\* The common names a peer may present.
WorkerChars == <<"w", "o", "r", "k", "e", "r", "-", "7">>
WorkerName == WorkerChars \o <<".">> \o NatsChars \o <<".">> \o BoshInternalChars
EvilName == <<"e", "v", "i", "l", ".", "e", "x", "a", "m", "p", "l", "e", ".", "c", "o", "m">>

CommonNames ==
    { pre \o sep \o NatsChars \o <<".">> \o BoshInternalChars \o tail :
        pre \in { <<>>, WorkerChars, <<"*">>, <<"a", ".", "b">> },
        sep \in { <<".">>, <<"X">>, <<"\n">>, <<>> },
        tail \in { <<>>, <<".", "c", "o", "m">> } }
    \cup { EvilName, <<>>,
           WorkerChars \o <<".">> \o NatsChars \o <<"X">> \o BoshInternalChars }

\* The lists of verified chains a handshake may hand to the callback: none,
\* empty chains only, one chain (alone, after an empty chain, after a chain
\* with another leaf, with an issuer behind the leaf), and a chain whose
\* issuer alone has the name.
PeerChains ==
    { <<>>, << <<>> >>, << <<>>, <<>> >> }
    \cup { << <<cn>> >> : cn \in CommonNames }
    \cup { << <<>>, <<cn>> >> : cn \in CommonNames }
    \cup { << <<EvilName>>, <<cn, EvilName>> >> : cn \in CommonNames }
    \cup { << <<EvilName, cn>> >> : cn \in CommonNames }

GoodChains == << <<WorkerName>> >>

----------------------------------------------------------------------------
(* Errors: the chain of bosherr.WrapError messages, outermost first, and   *)
(* the error at the bottom of the chain.                                   *)

NoCause == [op |-> "none", attempt |-> 0]
NoError == [wrap |-> <<>>, cause |-> NoCause]
IsError(e) == e # NoError
NewError(text) == [wrap |-> <<text>>, cause |-> NoCause]
CauseError(op, n) == [wrap |-> <<>>, cause |-> [op |-> op, attempt |-> n]]
WrapError(e, text) == [e EXCEPT !.wrap = <<text>> \o @]

----------------------------------------------------------------------------
(* getConnectionInfo.  The result is [err, addr, tls, auth].               *)

NoConnInfo(e) ==
    [err |-> e, addr |-> <<>>, tls |-> FALSE, auth |-> "none",
     username |-> "", password |-> ""]

\* The check getConnectionInfo makes of the user-info: !passwordIsSet.
PasswordMissing(user) == ~Password(user).isSet

getConnectionInfo(st) ==
    IF ~st.url.parses
    THEN NoConnInfo(WrapError(CauseError("url.Parse", 0), "Parsing Nats URL"))
    ELSE IF st.tls = "badCA"
    THEN NoConnInfo(NewError("Failed to load Mbus CA cert"))
    ELSE IF st.tls = "badKey"
    THEN NoConnInfo(WrapError(CauseError("tls.X509KeyPair", 0),
                              "Parsing certificate and private key"))
    ELSE IF st.url.user # "none" /\ PasswordMissing(st.url.user)
    THEN NoConnInfo(NewError("No password set for connection"))
    ELSE [err  |-> NoError,
          addr |-> HostSplit(st.url),
          tls  |-> st.tls # "off",
          auth |-> st.url.user,
          username |-> IF st.url.user = "none" THEN "" ELSE Username(st.url.user),
          password |-> IF st.url.user = "none" THEN "" ELSE Password(st.url.user).password]

----------------------------------------------------------------------------
(* Inbound messages (yagnats.Message): the payload as received, and what   *)
(* the two JSON decodings of it give.                                      *)

Messages ==
    { [json |-> TRUE,  method |-> "ping", reply_to |-> "director.reply-1"],
      [json |-> TRUE,  method |-> "ping", reply_to |-> ""],
      [json |-> FALSE, method |-> "#$",   reply_to |-> "#$"] }

NoMsg == [json |-> FALSE, method |-> "", reply_to |-> ""]

\* json.Unmarshal(natsMsg.Payload, &payload) in generateCEFLog: on an error
\* the struct keeps its zero values.
AuditFields(msg) ==
    IF msg.json THEN [method |-> msg.method, reply_to |-> msg.reply_to]
    ELSE [method |-> "", reply_to |-> ""]

NoEvent == [kind |-> "none", severity |-> 0, method |-> "", reply_to |-> ""]
Panic == [kind |-> "panic", severity |-> 0, method |-> "", reply_to |-> ""]

AuditSinkAlwaysDebug(severity) == "Debug"

AuditSinkAlwaysErr(severity) == "Err"

\* The audit logger method the event goes to: Err for severity 7, else Debug.
AuditSink(severity) == IF severity = 7 THEN "Err" ELSE "Debug"

\* generateCEFLog(natsMsg, severity, _): what reaches the audit logger.
\* cefOK: ProduceNATSRequestEventLog returned no error.
generateCEFLog(st, msg, severity, cefOK) ==
    IF ~st.url.parses THEN NoEvent
    ELSE IF Len(HostSplit(st.url)) < 2 THEN Panic      \* hostSplit[1]
    ELSE IF ~cefOK THEN NoEvent
    ELSE [kind     |-> AuditSink(severity),
          severity |-> severity,
          method   |-> AuditFields(msg).method,
          reply_to |-> AuditFields(msg).reply_to]

----------------------------------------------------------------------------
(* Outbound messages of Send, and their JSON encoding.                     *)

\* kind "map" is map[string]int{"x": x}; kind "chan" is a value
\* encoding/json cannot encode.
SendMessages == { [kind |-> "map", x |-> 1], [kind |-> "chan", x |-> 0] }
Targets == {"director"}
Topics == {"heartbeat"}

\* json.Marshal(message)
Marshal(m) ==
    IF m.kind = "map"
    THEN [err |-> NoError, bytes |-> "{\"x\":" \o ToString(m.x) \o "}"]
    ELSE [err |-> CauseError("json.Marshal", 0), bytes |-> ""]

SendSubjectNoAgent(target, topic, agentID) == target \o ".agent." \o topic

\* fmt.Sprintf("%s.agent.%s.%s", target, topic, settings.AgentID)
SendSubject(target, topic, agentID) ==
    target \o ".agent." \o topic \o "." \o agentID

\* fmt.Sprintf("agent.%s", settings.AgentID)
SubscribeSubject(agentID) == "agent." \o agentID

----------------------------------------------------------------------------
(* boshretry: a retryable returns [retry, err]; the attempt strategy runs  *)
(* it until it says not to retry or the attempts are used up.              *)

natsRetryableNoRetry(connectErr) ==
    IF IsError(connectErr)
    THEN [retry |-> FALSE, err |-> WrapError(connectErr, "Connecting to NATS")]
    ELSE [retry |-> FALSE, err |-> NoError]

natsRetryableAlwaysRetry(connectErr) ==
    IF IsError(connectErr)
    THEN [retry |-> TRUE, err |-> WrapError(connectErr, "Connecting to NATS")]
    ELSE [retry |-> TRUE, err |-> NoError]

\* The retryable of Start.
natsRetryable(connectErr) ==
    IF IsError(connectErr)
    THEN [retry |-> TRUE, err |-> WrapError(connectErr, "Connecting to NATS")]
    ELSE [retry |-> FALSE, err |-> NoError]

\* The retryable of Send.
publishRetryable(publishErr) ==
    IF IsError(publishErr)
    THEN [retry |-> TRUE, err |-> WrapError(publishErr, "Publishing to NATS")]
    ELSE [retry |-> FALSE, err |-> NoError]

\* attemptRetryStrategy.Try, after attempt number n of maxAttempts returned
\* r: TRUE when another attempt follows, FALSE when Try returns r.err.
TryAgain(n, maxAttempts, r) == r.retry /\ n < maxAttempts

----------------------------------------------------------------------------
(* The state after NewNatsHandler.                                         *)

IdleApp == [pc |-> "none", hdr |-> NilSlice]

\* afterFailure: a handler failed in an earlier delivery on this thread.
IdleDel == [pc |-> "idle", msg |-> NoMsg, snap |-> NilSlice, idx |-> 0,
            cur |-> NilFunc, out |-> "", calls |-> <<>>, snapAt |-> <<>>, regAt |-> <<>>,
            afterFailure |-> FALSE]

NoArgs == [target |-> "", topic |-> "", message |-> [kind |-> "none", x |-> 0],
           agentID |-> ""]

\* What the controlling thread keeps of its last Start or Run; userinfo is
\* the user-info of the bus URL that Start read, peer the verified chains of
\* the last TLS handshake and verify what VerifyPeerCertificate returned
\* for them, arpLog the calls of DeleteARPEntryWithIP.
NoStart == [userinfo |-> "none", peer |-> <<>>, verify |-> "none",
            conn |-> NoConnInfo(NoError), connectCalls |-> 0, connectOKAt |-> 0,
            subscribeCalls |-> 0, subject |-> "", arpCalls |-> 0, arpLog |-> <<>>,
            interrupted |-> FALSE, disconnects |-> 0, result |-> NoError]

\* What it keeps of its last Send: the arguments and the agent id of the
\* settings read, the subject and bytes computed, every Publish made.
NoSend == [args |-> NoArgs, subject |-> "", bytes |-> "", pubLog |-> <<>>,
           result |-> NoError]

\* The controlling thread: where it stands (pc) in which call (op), the
\* attempts made by the running retry, the number of Stop calls made in a
\* row, and the last Start and the last Send.
IdleCtl == [pc |-> "idle", op |-> "none", attempts |-> 0, stopsInRow |-> 0,
            start |-> NoStart, send |-> NoSend]

\* The state after construction, with the threads that will call in, the
\* settings the service may hold and what the run is bounded to: calls on
\* the controlling thread, deliveries, changes of the settings.
InitWith(registrants, deliverers, sts, left) ==
    /\ heap = <<>>
    /\ handlerFuncs = NilSlice
    /\ lockHolder = NoThread
    /\ app = [t \in registrants \cup {Controller} |->
                IF t = Controller THEN IdleApp ELSE [IdleApp EXCEPT !.pc = "call"]]
    /\ del = [d \in deliverers |-> IdleDel]
    /\ ctl = IdleCtl
    /\ client = [connected |-> FALSE, subs |-> 0]
    /\ settings \in sts
    /\ crashed = FALSE
    /\ hist = [registered |-> <<>>] @@ left

----------------------------------------------------------------------------
(* RegisterAdditionalFunc, by a registering thread or from inside Start.   *)

\* h.handlerFuncsLock.Lock(), and append's read of h.handlerFuncs.
RegisterLock(t) ==
    /\ ~crashed
    /\ app[t].pc = "call"
    /\ CanLock(lockHolder)
    /\ lockHolder' = t
    /\ app' = [app EXCEPT ![t] = [pc |-> "locked", hdr |-> handlerFuncs]]
    /\ UNCHANGED <<heap, handlerFuncs, del, ctl, client, settings, crashed, hist>>

\* The store of append's result into h.handlerFuncs, and Unlock().
RegisterAppend(t) ==
    /\ ~crashed
    /\ app[t].pc = "locked"
    /\ LET r == append(heap, app[t].hdr, FuncOf(t))
       IN /\ heap' = r.heap
          /\ handlerFuncs' = r.hdr
    /\ lockHolder' = Unlock(lockHolder)
    /\ app' = [app EXCEPT ![t].pc = "done"]
    /\ hist' = [hist EXCEPT !.registered = Append(@, FuncOf(t))]
    /\ UNCHANGED <<del, ctl, client, settings, crashed>>

----------------------------------------------------------------------------
(* The yagnats client, as far as the handler uses it.                      *)

\* client.Disconnect(): closes the connection if there is one.
Disconnect(c) == [c EXCEPT !.connected = FALSE]

\* Publish and Subscribe can succeed only on a connected client.
Usable(c) == c.connected

----------------------------------------------------------------------------
(* The subscription callback and handleNatsMsg.                            *)

\* What one run of handleNatsMsg did: the handler, how it came out, the
\* Publish made (pub, subject), the severity given to generateCEFLog and the
\* event that reached the audit logger.
CallRecord(f, outcome, pub, subject, sev, event) ==
    [f |-> f, outcome |-> outcome, pub |-> pub, subject |-> subject,
     sev |-> sev, event |-> event]

\* The err != nil branch of handleNatsMsg was taken in a call: the handler
\* returned an error, or the payload did not decode.
HandlerFailed(call) == call.outcome \in {"err", "decodeErr"}

SomeHandlerFailed(r) == \E i \in 1..Len(r.calls) : HandlerFailed(r.calls[i])

AfterHandlerStopsOnFailure(r, call) ==
    [r EXCEPT !.calls = Append(@, call),
              !.idx = @ + 1,
              !.cur = NilFunc,
              !.out = "",
              !.pc = IF call.event = Panic THEN "panicked"
                     ELSE IF HandlerFailed(call) \/ r.idx + 1 > r.snap.len
                     THEN "done" ELSE "loop"]

AfterHandlerSameIndex(r, call) ==
    [r EXCEPT !.calls = Append(@, call),
              !.cur = NilFunc,
              !.out = "",
              !.pc = IF call.event = Panic THEN "panicked" ELSE "loop"]

\* Where the range loop stands after the handler at idx has been dealt with.
AfterHandler(r, call) ==
    [r EXCEPT !.calls = Append(@, call),
              !.idx = @ + 1,
              !.cur = NilFunc,
              !.out = "",
              !.pc = IF call.event = Panic THEN "panicked"
                     ELSE IF r.idx + 1 > r.snap.len THEN "done" ELSE "loop"]

\* The transport calls the callback with a message: Lock(), and the copy of
\* the slice header h.handlerFuncs.
DeliverSnapshot(d, m) ==
    /\ ~crashed
    /\ del[d].pc \in {"idle", "done"}
    /\ client.connected /\ client.subs > 0
    /\ hist.deliveries > 0
    /\ CanLock(lockHolder)
    /\ lockHolder' = d
    /\ del' = [del EXCEPT ![d] =
                 [IdleDel EXCEPT !.pc = "unlock", !.msg = m, !.snap = handlerFuncs,
                                 !.idx = 1,
                                 !.snapAt = SliceContents(heap, handlerFuncs),
                                 !.regAt = hist.registered,
                                 !.afterFailure =
                                     del[d].afterFailure \/ SomeHandlerFailed(del[d])]]
    /\ hist' = [hist EXCEPT !.deliveries = @ - 1]
    /\ UNCHANGED <<heap, handlerFuncs, app, ctl, client, settings, crashed>>

\* Unlock(), before the range loop.
DeliverUnlock(d) ==
    /\ ~crashed
    /\ del[d].pc = "unlock"
    /\ lockHolder' = Unlock(lockHolder)
    /\ del' = [del EXCEPT ![d].pc = IF del[d].snap.len = 0 THEN "done" ELSE "loop"]
    /\ UNCHANGED <<heap, handlerFuncs, app, ctl, client, settings, crashed, hist>>

\* handleNatsMsg(natsMsg, handlerFuncs[idx]) begins: PerformHandlerWithJSON
\* decodes the payload and, when that works, calls the handler.
HandlerCall(d, cefOK) ==
    /\ ~crashed
    /\ del[d].pc = "loop"
    /\ LET r == del[d]
           f == heap[r.snap.arr][r.idx]
       IN IF r.msg.json
          THEN /\ del' = [del EXCEPT ![d].pc = "inHandler", ![d].cur = f]
               /\ UNCHANGED crashed
          ELSE LET ev == generateCEFLog(settings, r.msg, 7, cefOK)
               IN /\ del' = [del EXCEPT ![d] =
                                AfterHandler(r, CallRecord(f, "decodeErr", "none", "", 7, ev))]
                  /\ crashed' = (ev = Panic)
    /\ UNCHANGED <<heap, handlerFuncs, lockHolder, app, ctl, client, settings, hist>>

\* What a handler can give PerformHandlerWithJSON: an error, no response
\* ("nil"), a response.
Outcomes == {"err", "nil", "resp"}

HasResponseAlways(outcome) == TRUE

\* len(respBytes) > 0
HasResponse(outcome) == outcome = "resp"

\* The handler returns: an error, no response ("nil"), or a response.
HandlerReturn(d, outcome, cefOK) ==
    /\ ~crashed
    /\ del[d].pc = "inHandler"
    /\ LET r == del[d]
       IN IF outcome = "err"
          THEN LET ev == generateCEFLog(settings, r.msg, 7, cefOK)
               IN /\ del' = [del EXCEPT ![d] =
                                AfterHandler(r, CallRecord(r.cur, outcome, "none", "", 7, ev))]
                  /\ crashed' = (ev = Panic)
          ELSE IF HasResponse(outcome)
          THEN /\ del' = [del EXCEPT ![d].pc = "publish", ![d].out = outcome]
               /\ UNCHANGED crashed
          ELSE LET ev == generateCEFLog(settings, r.msg, 1, cefOK)
               IN /\ del' = [del EXCEPT ![d] =
                                AfterHandler(r, CallRecord(r.cur, outcome, "none", "", 1, ev))]
                  /\ crashed' = (ev = Panic)
    /\ UNCHANGED <<heap, handlerFuncs, lockHolder, app, ctl, client, settings, hist>>

ReplySeverityAlwaysSuccess(published) == 1

\* The severity handleNatsMsg logs after h.client.Publish returned.
ReplySeverity(published) == IF published THEN 1 ELSE 7

\* h.client.Publish(req.ReplyTo, respBytes) and the audit event after it.
ReplyPublish(d, ok, cefOK) ==
    /\ ~crashed
    /\ del[d].pc = "publish"
    /\ ok => Usable(client)
    /\ LET r == del[d]
           ev == generateCEFLog(settings, r.msg, ReplySeverity(ok), cefOK)
       IN /\ del' = [del EXCEPT ![d] =
                        AfterHandler(r, CallRecord(r.cur, r.out,
                                                   IF ok THEN "ok" ELSE "fail",
                                                   r.msg.reply_to, ReplySeverity(ok), ev))]
          /\ crashed' = (ev = Panic)
    /\ UNCHANGED <<heap, handlerFuncs, lockHolder, app, ctl, client, settings, hist>>

----------------------------------------------------------------------------
(* Start and Run, on the controlling thread.                               *)

StartReturnsStopNotDeferred(c, err) ==
    IF c.op = "start" \/ IsError(err)
    THEN [c EXCEPT !.pc = "idle", !.start.result = err]
    ELSE [c EXCEPT !.pc = "r_wait", !.start.result = NoError]

\* How Start's return value leaves Start (op "start") or goes on in Run.
StartReturns(c, err) ==
    IF c.op = "start"
    THEN [c EXCEPT !.pc = "idle", !.start.result = err]
    ELSE IF IsError(err)
    THEN [c EXCEPT !.pc = "r_deferredStop",
                   !.start.result = WrapError(err, "Starting nats handler")]
    ELSE [c EXCEPT !.pc = "r_wait", !.start.result = NoError]

\* The history of Start's returns, kept where the specification asks for it
\* (a field starts of hist): TRUE for a return with an error.  c is the
\* controlling thread after the step; Start has returned when it is no
\* longer at one of Start's steps.
LogStart(h, c) ==
    IF "starts" \in DOMAIN h /\ c.pc \notin {"s_connect", "s_subscribe"}
    THEN [h EXCEPT !.starts = Append(@, IsError(c.start.result))]
    ELSE h

\* Start(handlerFunc) or Run(handlerFunc) is called: RegisterAdditionalFunc
\* comes first.
StartCall(op) ==
    /\ ~crashed
    /\ ctl.pc = "idle"
    /\ hist.calls > 0
    /\ ctl' = [ctl EXCEPT !.pc = "s_register", !.op = op, !.attempts = 0,
                          !.stopsInRow = 0, !.start = NoStart]
    /\ app' = [app EXCEPT ![Controller] = [IdleApp EXCEPT !.pc = "call"]]
    /\ hist' = [hist EXCEPT !.calls = @ - 1]
    /\ UNCHANGED <<heap, handlerFuncs, lockHolder, del, client, settings, crashed>>

StartProceedsOnError(err) == TRUE

\* Start goes on after a step only when the step returned no error.
StartProceeds(err) == ~IsError(err)

StartGetConnectionInfoUndoesAppend ==
    /\ ~crashed
    /\ ctl.pc = "s_register"
    /\ app[Controller].pc = "done"
    /\ app' = [app EXCEPT ![Controller] = IdleApp]
    /\ LET ci == getConnectionInfo(settings)
           c  == [ctl EXCEPT !.start.userinfo = settings.url.user]
       IN /\ ctl' = IF StartProceeds(ci.err)
                    THEN [c EXCEPT !.pc = "s_connect", !.start.conn = ci]
                    ELSE StartReturns(c, WrapError(ci.err, "Getting connection info"))
          /\ handlerFuncs' = IF StartProceeds(ci.err)
                             THEN handlerFuncs
                             ELSE [handlerFuncs EXCEPT !.len = @ - 1]
    /\ hist' = LogStart(hist, ctl')
    /\ UNCHANGED <<heap, lockHolder, del, client, settings, crashed>>

\* h.getConnectionInfo() and the installation of the before-connect hook.
StartGetConnectionInfo ==
    /\ ~crashed
    /\ ctl.pc = "s_register"
    /\ app[Controller].pc = "done"
    /\ app' = [app EXCEPT ![Controller] = IdleApp]
    /\ LET ci == getConnectionInfo(settings)
           c  == [ctl EXCEPT !.start.userinfo = settings.url.user]
       IN ctl' = IF StartProceeds(ci.err)
                 THEN [c EXCEPT !.pc = "s_connect", !.start.conn = ci]
                 ELSE StartReturns(c, WrapError(ci.err, "Getting connection info"))
    /\ hist' = LogStart(hist, ctl')
    /\ UNCHANGED <<heap, handlerFuncs, lockHolder, del, client, settings, crashed>>

\* The hook run by the client before it dials: DeleteARPEntryWithIP(ip)
\* when the host of connProvider.Addr is a literal IP.  Gives the number of
\* evictions asked for.
BeforeConnectCallback(conn) ==
    IF Len(conn.addr) > 0 /\ IsLiteralIP(conn.addr[1]) THEN 1 ELSE 0

\* What the hook leaves in Start's variable err, which it captures: the
\* result of DeleteARPEntryWithIP when it called it.
HookErr(conn, arpOK, n) ==
    IF BeforeConnectCallback(conn) > 0 /\ ~arpOK
    THEN CauseError("DeleteARPEntryWithIP", n)
    ELSE NoError

\* The calls of DeleteARPEntryWithIP the hook makes in one run.
HookCalls(conn, arpOK) ==
    IF BeforeConnectCallback(conn) > 0
    THEN << [ip |-> conn.addr[1], ok |-> arpOK] >>
    ELSE <<>>

StartErrKeepsHookErr(hookErr, tryErr) == IF IsError(hookErr) THEN hookErr ELSE tryErr

\* err = attemptRetryStrategy.Try(): whatever the hook had left in err is
\* overwritten.
StartErrAfterTry(hookErr, tryErr) == tryErr

\* The client can dial only an address of the form host:port.
Dialable(conn) == Len(conn.addr) = 2

\* The TLS handshake of a Connect: the client hands the verified chains to
\* connInfo.TLSInfo.VerifyPeerCertificate, which getConnectionInfo has set
\* to h.VerifyPeerCertificate.  "none" without TLS.
Handshake(conn, chains) ==
    IF conn.tls THEN VerifyPeerCertificate(chains) ELSE "none"

\* A handshake whose verification callback returned an error is aborted.
HandshakeAborted(verdict) == verdict = "error"

\* One attempt of the connection retry: h.client.Connect(connProvider),
\* which runs the before-connect hook and then dials, the peer presenting
\* the given chains when the connection uses TLS.  arpOK: the eviction
\* asked for by the hook, if any, worked.
ConnectAttempt(ok, chains, arpOK) ==
    /\ ~crashed
    /\ ctl.pc = "s_connect"
    /\ ok => Dialable(ctl.start.conn)
    /\ ok => ~HandshakeAborted(Handshake(ctl.start.conn, chains))
    /\ LET n == ctl.attempts + 1
           r == natsRetryable(IF ok THEN NoError ELSE CauseError("Connect", n))
           e == StartErrAfterTry(HookErr(ctl.start.conn, arpOK, n), r.err)
           c == [ctl EXCEPT !.attempts = n,
                            !.start.arpLog = @ \o HookCalls(ctl.start.conn, arpOK),
                            !.start.peer = IF ctl.start.conn.tls THEN chains ELSE <<>>,
                            !.start.verify = Handshake(ctl.start.conn, chains),
                            !.start.connectCalls = @ + 1,
                            !.start.connectOKAt = IF ok /\ @ = 0 THEN n ELSE @,
                            !.start.arpCalls = @ + BeforeConnectCallback(ctl.start.conn)]
       IN /\ ctl' = IF TryAgain(n, natsConnectionMaxRetries, r)
                    THEN c
                    ELSE IF StartProceeds(e)
                    THEN [c EXCEPT !.pc = "s_subscribe", !.attempts = 0]
                    ELSE StartReturns(c, WrapError(e, "Connecting"))
          /\ client' = IF ok THEN [client EXCEPT !.connected = TRUE] ELSE client
    /\ hist' = LogStart(hist, ctl')
    /\ UNCHANGED <<heap, handlerFuncs, lockHolder, app, del, settings, crashed>>

\* h.client.Subscribe("agent.<id>", callback)
Subscribe(ok) ==
    /\ ~crashed
    /\ ctl.pc = "s_subscribe"
    /\ ok => Usable(client)
    /\ client' = IF ok THEN [client EXCEPT !.subs = @ + 1] ELSE client
    /\ LET c == [ctl EXCEPT !.start.subscribeCalls = @ + 1,
                            !.start.subject = SubscribeSubject(settings.agentID)]
       IN ctl' = StartReturns(c,
                   IF ok THEN NoError
                   ELSE WrapError(CauseError("Subscribe", 0), "Subscribing to " \o c.start.subject))
    /\ hist' = LogStart(hist, ctl')
    /\ UNCHANGED <<heap, handlerFuncs, lockHolder, app, del, settings, crashed>>

\* runUntilInterrupted: the signal arrives, the loop ends and the deferred
\* h.client.Disconnect() runs.
RunInterrupted ==
    /\ ~crashed
    /\ ctl.pc = "r_wait"
    /\ ctl' = [ctl EXCEPT !.pc = "r_deferredStop", !.start.interrupted = TRUE,
                          !.start.disconnects = @ + 1]
    /\ client' = Disconnect(client)
    /\ UNCHANGED <<heap, handlerFuncs, lockHolder, app, del, settings, crashed, hist>>

\* Run returns: its deferred h.Stop() runs.
RunDeferredStop ==
    /\ ~crashed
    /\ ctl.pc = "r_deferredStop"
    /\ ctl' = [ctl EXCEPT !.pc = "idle", !.start.disconnects = @ + 1]
    /\ client' = Disconnect(client)
    /\ UNCHANGED <<heap, handlerFuncs, lockHolder, app, del, settings, crashed, hist>>

----------------------------------------------------------------------------
(* Stop and Send.                                                          *)

StopPanicsWhenDisconnected(c) == ~c.connected

\* Whether Stop panics: it only calls h.client.Disconnect().
StopPanics(c) == FALSE

Stop ==
    /\ ~crashed
    /\ ctl.pc = "idle"
    /\ hist.calls > 0
    /\ ctl' = [ctl EXCEPT !.op = "stop", !.stopsInRow = @ + 1]
    /\ crashed' = StopPanics(client)
    /\ client' = Disconnect(client)
    /\ hist' = [hist EXCEPT !.calls = @ - 1]
    /\ UNCHANGED <<heap, handlerFuncs, lockHolder, app, del, settings>>

SendProceedsOnError(err) == TRUE

\* Send goes on to publish only when json.Marshal returned no error.
SendProceeds(err) == ~IsError(err)

\* Send(target, topic, message) is called: json.Marshal, then the subject
\* from the settings read now.
SendCall(target, topic, message) ==
    /\ ~crashed
    /\ ctl.pc = "idle"
    /\ hist.calls > 0
    /\ LET m == Marshal(message)
           c == [ctl EXCEPT !.op = "send", !.attempts = 0, !.stopsInRow = 0,
                            !.send = [NoSend EXCEPT !.args =
                                        [target |-> target, topic |-> topic,
                                         message |-> message,
                                         agentID |-> settings.agentID]]]
       IN ctl' = IF SendProceeds(m.err)
                 THEN [c EXCEPT !.pc = "p_publish", !.send.bytes = m.bytes,
                                !.send.subject =
                                    SendSubject(target, topic, settings.agentID)]
                 ELSE [c EXCEPT !.send.result = WrapError(m.err, "Marshalling message")]
    /\ hist' = [hist EXCEPT !.calls = @ - 1]
    /\ UNCHANGED <<heap, handlerFuncs, lockHolder, app, del, client, settings, crashed>>

\* One attempt of the publish retry: h.client.Publish(subject, bytes).
SendPublish(ok) ==
    /\ ~crashed
    /\ ctl.pc = "p_publish"
    /\ ok => Usable(client)
    /\ LET n == ctl.attempts + 1
           r == publishRetryable(IF ok THEN NoError ELSE CauseError("Publish", n))
           c == [ctl EXCEPT !.attempts = n,
                            !.send.pubLog = Append(@, [subject |-> ctl.send.subject,
                                                       payload |-> ctl.send.bytes,
                                                       ok |-> ok])]
       IN ctl' = IF TryAgain(n, publishMaxAttempts, r)
                 THEN c
                 ELSE [c EXCEPT !.pc = "idle", !.send.result = r.err]
    /\ UNCHANGED <<heap, handlerFuncs, lockHolder, app, del, client, settings, crashed, hist>>

----------------------------------------------------------------------------
(* The settings service hands out new settings.                            *)

UpdateSettings(st) ==
    /\ ~crashed
    /\ hist.updates > 0
    /\ st # settings
    /\ settings' = st
    /\ hist' = [hist EXCEPT !.updates = @ - 1]
    /\ UNCHANGED <<heap, handlerFuncs, lockHolder, app, del, ctl, client, crashed>>

----------------------------------------------------------------------------

Registration ==
    \/ \E t \in DOMAIN app : RegisterLock(t)
    \/ \E t \in DOMAIN app : RegisterAppend(t)

Dispatch(msgs, outcomes, pubs, cefs) ==
    \/ \E d \in DOMAIN del, m \in msgs : DeliverSnapshot(d, m)
    \/ \E d \in DOMAIN del : DeliverUnlock(d)
    \/ \E d \in DOMAIN del, cefOK \in cefs : HandlerCall(d, cefOK)
    \/ \E d \in DOMAIN del, o \in outcomes, cefOK \in cefs :
          HandlerReturn(d, o, cefOK)
    \/ \E d \in DOMAIN del, ok \in pubs, cefOK \in cefs : ReplyPublish(d, ok, cefOK)

StartSteps(peers, arps) ==
    \/ StartGetConnectionInfo
    \/ \E ok \in BOOLEAN, chains \in peers, arpOK \in arps :
          ConnectAttempt(ok, chains, arpOK)
    \/ \E ok \in BOOLEAN : Subscribe(ok)

RunSteps ==
    \/ RunInterrupted
    \/ RunDeferredStop

SendSteps ==
    \/ \E t \in Targets, tp \in Topics, m \in SendMessages : SendCall(t, tp, m)
    \/ \E ok \in BOOLEAN : SendPublish(ok)

(* The dispatcher: one Start, registrations before and after it, one       *)
(* delivery thread, every kind of message and of handler outcome.          *)

Init ==
    InitWith(Registrants, {<<"del", 1>>}, {GoodSettings},
             [calls |-> 1, deliveries |-> MaxDeliveries, updates |-> MaxSettingsUpdates])

Next ==
    \/ Registration
    \/ Dispatch(Messages, Outcomes, BOOLEAN, BOOLEAN)
    \/ StartCall("start")
    \/ StartSteps({GoodChains}, {TRUE})
    \/ \E st \in {MkSettings(NoPortURL, "off", "abc123"), MkSettings(BadURL, "off", "abc123")} :
          UpdateSettings(st)

Spec == Init /\ [][Next]_vars

(* Concurrency: one Start, three more registering threads and two         *)
(* delivery threads; every message decodes and every handler responds.     *)

InitConcurrent ==
    InitWith(MoreRegistrants, Deliverers, {GoodSettings},
             [calls |-> 1, deliveries |-> MaxDeliveries, updates |-> 0])

NextConcurrent ==
    \/ Registration
    \/ Dispatch({ m \in Messages : m.json /\ m.reply_to # "" }, {"resp"}, {TRUE}, {TRUE})
    \/ StartCall("start")
    \/ StartSteps({GoodChains}, {TRUE})

SpecConcurrent == InitConcurrent /\ [][NextConcurrent]_vars

\* The same with two registering threads, where a thread that can take the
\* mutex does so and a thread inside a critical section runs to its
\* Unlock: both sections are straight-line code.  Nothing is assumed of
\* the handlers and of Publish, which may never return.
InitConcurrentFair ==
    InitWith(Registrants, Deliverers, {GoodSettings},
             [calls |-> 1, deliveries |-> MaxDeliveries, updates |-> 0])

FairLocking ==
    /\ \A t \in Registrants \cup {Controller} :
          WF_vars(RegisterLock(t)) /\ WF_vars(RegisterAppend(t))
    /\ \A d \in Deliverers : WF_vars(DeliverUnlock(d))

SpecConcurrentFair == InitConcurrentFair /\ [][NextConcurrent]_vars /\ FairLocking

(* The life cycle: Start, Run, Stop and Send on the controlling thread     *)
(* under every kind of settings, with one delivery of a message that       *)
(* decodes to handlers that give no response.                              *)

InitLifecycle ==
    InitWith({}, {<<"del", 1>>}, SettingsChoices,
             [calls |-> MaxCalls, deliveries |-> 1,
              updates |-> MaxSettingsUpdates])

NextLifecycle ==
    \/ Registration
    \/ \E op \in {"start", "run"} : StartCall(op)
    \/ StartSteps({GoodChains}, {TRUE})
    \/ RunSteps
    \/ Stop
    \/ SendSteps
    \/ \E st \in { MkSettings(GoodURL, "off", "new456"),
                    MkSettings(UserOnlyURL, "off", "abc123") } : UpdateSettings(st)
    \/ \E d \in DOMAIN del, m \in { m \in Messages : m.json /\ m.reply_to = "" } :
          DeliverSnapshot(d, m)
    \/ \E d \in DOMAIN del : DeliverUnlock(d)
    \/ \E d \in DOMAIN del : HandlerCall(d, TRUE)
    \/ \E d \in DOMAIN del : HandlerReturn(d, "nil", TRUE)

SpecLifecycle == InitLifecycle /\ [][NextLifecycle]_vars

(* Start alone, called again and again, under every kind of bus URL and    *)
(* of credentials.                                                         *)

StartSettings ==
    SettingsChoices \cup { MkSettings(UserEmptyURL, "off", "abc123"),
                           MkSettings(PassOnlyURL, "off", "abc123"),
                           MkSettings(GoodURL, "badKey", "abc123") }

InitStart ==
    InitWith({}, {<<"del", 1>>}, StartSettings,
             [calls |-> MaxCalls, deliveries |-> 0, updates |-> MaxSettingsUpdates])

NextStart ==
    \/ Registration
    \/ StartCall("start")
    \/ StartSteps({GoodChains}, BOOLEAN)
    \/ \E st \in StartSettings : UpdateSettings(st)

SpecStart == InitStart /\ [][NextStart]_vars

(* The TLS handshake: Start under mutual TLS, the peer presenting every    *)
(* kind of verified chains.                                                *)

InitHandshake ==
    InitWith({}, {<<"del", 1>>}, { MkSettings(NameURL, "ok", "abc123") },
             [calls |-> 1, deliveries |-> 0, updates |-> 0])

NextHandshake ==
    \/ Registration
    \/ StartCall("start")
    \/ StartSteps(PeerChains, {TRUE})

SpecHandshake == InitHandshake /\ [][NextHandshake]_vars

(* The registry over the life of the component: Start called again and    *)
(* again under settings that make it fail or succeed, a thread calling     *)
(* RegisterAdditionalFunc, Stop and Send in between, and one delivery of   *)
(* a message that decodes to handlers that give no response.  The history  *)
(* of Start's returns is kept.                                             *)

RegistrySettings == { GoodSettings, MkSettings(UserOnlyURL, "off", "abc123") }

InitRegistry ==
    InitWith({<<"reg", 1>>}, {<<"del", 1>>}, RegistrySettings,
             [calls |-> MaxCalls, deliveries |-> 1, updates |-> MaxSettingsUpdates,
              starts |-> <<>>])

NextRegistry ==
    \/ Registration
    \/ StartCall("start")
    \/ StartSteps({GoodChains}, {TRUE})
    \/ Stop
    \/ SendSteps
    \/ \E st \in RegistrySettings : UpdateSettings(st)
    \/ \E d \in DOMAIN del, m \in { m \in Messages : m.json /\ m.reply_to = "" } :
          DeliverSnapshot(d, m)
    \/ \E d \in DOMAIN del : DeliverUnlock(d)
    \/ \E d \in DOMAIN del : HandlerCall(d, TRUE)
    \/ \E d \in DOMAIN del : HandlerReturn(d, "nil", TRUE)

SpecRegistry == InitRegistry /\ [][NextRegistry]_vars

----------------------------------------------------------------------------
(* Properties of the dispatcher.                                           *)

\* The handlers handleNatsMsg has been run for, in order.
Called(r) == [i \in 1..Len(r.calls) |-> r.calls[i].f]

\* The calls of a delivery that made a Publish.
PublishedCalls(r) == { i \in 1..Len(r.calls) : r.calls[i].pub # "none" }

\* The calls of a delivery whose audit event was of the given kind.
EventCalls(r, kind) == { i \in 1..Len(r.calls) : r.calls[i].event.kind = kind }

Responded(r) == { i \in 1..Len(r.calls) : r.calls[i].outcome = "resp" }

AllFailed(r) ==
    /\ Len(r.calls) > 0
    /\ \A i \in 1..Len(r.calls) : r.calls[i].outcome \in {"err", "decodeErr"}

InFlight(r) == r.pc \in {"unlock", "loop", "inHandler", "publish"}

\* C1, as stated: a delivered message with a non-empty reply-to for which a
\* registered handler succeeded with a non-empty response has had exactly
\* one Publish to that reply-to when the callback returns.
C1_ExactlyOnePublish ==
    \A d \in DOMAIN del :
        LET r == del[d]
        IN (r.pc = "done" /\ r.msg.reply_to # "" /\ Responded(r) # {})
           => Cardinality({ i \in PublishedCalls(r) :
                              r.calls[i].subject = r.msg.reply_to }) = 1

\* C1, amended: for a delivered message with a non-empty reply-to, every
\* handler that succeeded with a non-empty response has had exactly one
\* Publish, to that reply-to, and no other handler has had any: the number
\* of Publish calls is the number of handlers that responded.
C1_OnePublishPerResponse ==
    \A d \in DOMAIN del :
        LET r == del[d]
        IN r.msg.reply_to # ""
           => /\ PublishedCalls(r) = Responded(r)
              /\ \A i \in PublishedCalls(r) : r.calls[i].subject = r.msg.reply_to
              /\ Len(r.calls) <= r.snap.len

C1_Witness ==
    \E d \in DOMAIN del :
        /\ del[d].pc = "done"
        /\ del[d].msg.reply_to # ""
        /\ Cardinality(PublishedCalls(del[d])) = 2
        /\ \E i \in 1..Len(del[d].calls) : del[d].calls[i].outcome = "nil"

\* C2: when the callback returns, handleNatsMsg has been run exactly once
\* for each handler registered before the delivery took its snapshot, in the
\* order of registration; while it runs, for a prefix of them.  A message
\* that decodes reaches the handler function itself in each of these runs.
C2_EachHandlerOnceInOrder ==
    \A d \in DOMAIN del :
        LET r == del[d]
        IN /\ r.pc = "done" => Called(r) = r.regAt
           /\ r.pc # "idle" =>
                /\ Len(r.calls) <= Len(r.regAt)
                /\ Called(r) = SubSeq(r.regAt, 1, Len(r.calls))
           /\ r.msg.json => \A i \in 1..Len(r.calls) : r.calls[i].outcome # "decodeErr"

\* Registrations before and after Start, then a complete delivery.
C2_Witness ==
    \E d \in DOMAIN del :
        /\ del[d].pc = "done"
        /\ del[d].msg.json
        /\ Len(del[d].regAt) = 3
        /\ del[d].regAt[2] = StartFunc
        /\ Len(del[d].calls) = 3

C4_ExactlyOneFailureEvent ==
    \A d \in DOMAIN del :
        LET r == del[d]
        IN (r.pc = "done" /\ AllFailed(r))
           => /\ PublishedCalls(r) = {}
              /\ Cardinality(EventCalls(r, "Err")) = 1

\* C4, amended: when every handler failed for a message, no Publish was
\* made, generateCEFLog was called with severity 7 once for each handler of
\* the snapshot, each call emitted one failure-severity event or (bus URL
\* unparsable, event not formattable) none, and no success-severity event
\* was emitted: at most one failure event per handler, not per message.
C4_FailureEventPerHandler ==
    \A d \in DOMAIN del :
        LET r == del[d]
        IN (r.pc = "done" /\ AllFailed(r))
           => /\ PublishedCalls(r) = {}
              /\ Len(r.calls) = r.snap.len
              /\ \A i \in 1..Len(r.calls) :
                    /\ r.calls[i].sev = 7
                    /\ r.calls[i].event.kind \in {"Err", "none"}
                    /\ r.calls[i].event.kind = "Err" => r.calls[i].event.severity = 7

\* Three handlers failed for one message: three failure events.
C4_Witness ==
    \E d \in DOMAIN del :
        /\ del[d].pc = "done"
        /\ AllFailed(del[d])
        /\ Cardinality(EventCalls(del[d], "Err")) = 3

----------------------------------------------------------------------------
(* Properties of Start, Send and Stop.                                     *)

\* The last Start (alone or inside Run) has returned.
StartReturned == ctl.pc \notin {"s_register", "s_connect", "s_subscribe"}

\* The last Send has returned.
SendReturned == ctl.pc # "p_publish"

\* Some Start has got past its RegisterAdditionalFunc.
StartWasCalled == \E i \in 1..Len(hist.registered) : hist.registered[i] = StartFunc

FailedPublishes(log) == { i \in 1..Len(log) : ~log[i].ok }

\* C5: a Start all of whose Connect attempts failed has called Connect
\* exactly 4 times and returned the error of the 4th attempt (wrapped); a
\* Send all of whose Publish attempts failed has called Publish exactly 3
\* times and returned the error of the 3rd attempt (wrapped).
C5_RetryBoundExhausted ==
    /\ ctl.start.connectCalls <= 4
    /\ Len(ctl.send.pubLog) <= 3
    /\ (StartReturned /\ ctl.start.connectCalls > 0 /\ ctl.start.connectOKAt = 0)
          => /\ ctl.start.connectCalls = 4
             /\ ctl.start.result.cause = [op |-> "Connect", attempt |-> 4]
             /\ ctl.start.result.wrap \in
                   { <<"Connecting", "Connecting to NATS">>,
                     <<"Starting nats handler", "Connecting", "Connecting to NATS">> }
    /\ (SendReturned /\ ctl.send.pubLog # <<>>
           /\ FailedPublishes(ctl.send.pubLog) = 1..Len(ctl.send.pubLog))
          => /\ Len(ctl.send.pubLog) = 3
             /\ ctl.send.result.cause = [op |-> "Publish", attempt |-> 3]
             /\ ctl.send.result.wrap = <<"Publishing to NATS">>

\* A Start that used up its Connect attempts, then a Send that used up its
\* Publish attempts.
C5_Witness ==
    /\ ctl.pc = "idle"
    /\ ctl.start.connectCalls = 4 /\ ctl.start.connectOKAt = 0
    /\ Len(ctl.send.pubLog) = 3
    /\ FailedPublishes(ctl.send.pubLog) = 1..3

\* C6: once a Connect attempt of Start has succeeded, on attempt J <= 4,
\* Connect has been called exactly J times, the retry is over and Start's
\* error, if any, is not the retry's; once a Publish attempt of Send has
\* succeeded, on attempt J <= 3, it is the last Publish of that Send, Send
\* has returned, and it returned no error.
C6_StopsAtFirstSuccess ==
    /\ ctl.start.connectOKAt > 0
          => /\ ctl.start.connectCalls = ctl.start.connectOKAt
             /\ ctl.start.connectOKAt <= 4
             /\ ctl.pc # "s_connect"
             /\ ctl.start.result.cause.op # "Connect"
    /\ \A i \in 1..Len(ctl.send.pubLog) :
          ctl.send.pubLog[i].ok
             => /\ i = Len(ctl.send.pubLog)
                /\ i <= 3
                /\ SendReturned
                /\ ctl.send.result = NoError

\* Connect succeeded on its last permitted attempt, and so did Publish.
C6_Witness ==
    /\ ctl.pc = "idle"
    /\ ctl.start.connectOKAt = 4
    /\ ctl.start.result = NoError
    /\ Len(ctl.send.pubLog) = 3
    /\ ctl.send.pubLog[3].ok

\* C7: Start calls Subscribe only after one of its own Connect attempts
\* succeeded; a Start none of whose Connect attempts succeeded (connection
\* info not obtained, or every attempt failed) returns an error and has not
\* called Subscribe; and no message is dispatched while no Subscribe has
\* succeeded.
C7_SubscribeOnlyAfterConnect ==
    /\ ctl.pc = "s_subscribe" => ctl.start.connectOKAt > 0
    /\ ctl.start.subscribeCalls > 0 => ctl.start.connectOKAt > 0
    /\ (StartReturned /\ StartWasCalled /\ ctl.start.connectOKAt = 0)
          => /\ ctl.start.subscribeCalls = 0
             /\ IsError(ctl.start.result)
    /\ client.subs = 0 => \A d \in DOMAIN del : del[d].pc = "idle"

\* A Start under mutual TLS whose four handshakes all failed.
C7_Witness ==
    /\ ctl.pc = "idle"
    /\ ctl.start.conn.tls
    /\ ctl.start.connectCalls = 4
    /\ ctl.start.connectOKAt = 0
    /\ ctl.start.subscribeCalls = 0
    /\ client.subs = 0

\* C8: every Publish of a Send has the subject
\* <target>.agent.<topic>.<agentID>, with the agent id of the settings read
\* in that Send, and the JSON encoding of the message as payload, the same
\* on every attempt; a Send that returned no error made exactly one Publish
\* that succeeded.
C8_SendSubjectAndPayload ==
    LET a == ctl.send.args
        log == ctl.send.pubLog
    IN /\ \A i \in 1..Len(log) :
             /\ log[i].subject = a.target \o ".agent." \o a.topic \o "." \o a.agentID
             /\ (a.target = "director" /\ a.topic = "heartbeat" /\ a.agentID = "abc123")
                   => log[i].subject = "director.agent.heartbeat.abc123"
             /\ a.message = [kind |-> "map", x |-> 1] => log[i].payload = "{\"x\":1}"
             /\ log[i].subject = log[1].subject
             /\ log[i].payload = log[1].payload
       /\ (SendReturned /\ a # NoArgs /\ ctl.send.result = NoError)
             => Cardinality((1..Len(log)) \ FailedPublishes(log)) = 1

\* A Send that succeeded on its second attempt, the agent id of the
\* settings having changed since it read them.
C8_Witness ==
    /\ SendReturned
    /\ ctl.send.result = NoError
    /\ Len(ctl.send.pubLog) = 2
    /\ ctl.send.args.agentID = "abc123"
    /\ settings.agentID # ctl.send.args.agentID

\* C9: a Send whose message cannot be marshalled has returned the marshal
\* error and has made no Publish.
C9_MarshalFailureNoPublish ==
    ctl.send.args.message.kind = "chan"
       => /\ ctl.send.pubLog = <<>>
          /\ SendReturned
          /\ IsError(ctl.send.result)
          /\ ctl.send.result.cause.op = "json.Marshal"
          /\ ctl.send.result.wrap = <<"Marshalling message">>

\* Such a Send while the client is connected.
C9_Witness ==
    /\ ctl.send.args.message.kind = "chan"
    /\ ctl.op = "send"
    /\ client.connected

\* C10: Stop never panics, leaves the client disconnected and touches
\* nothing else (registry, subscriptions, deliveries in flight); called
\* when the client is already disconnected -- never started, or right
\* after another Stop or after the Disconnect of runUntilInterrupted -- it
\* changes nothing at all in the client.
C10_StopIdempotent ==
    [][ /\ Stop =>
            /\ ~crashed'
            /\ ~client'.connected
            /\ client'.subs = client.subs
            /\ UNCHANGED <<heap, handlerFuncs, lockHolder, app, del, settings>>
            /\ (ctl.stopsInRow > 0 \/ ~client.connected) => client' = client
        /\ (RunDeferredStop /\ ctl.start.interrupted) =>
            /\ ~crashed'
            /\ client' = client
      ]_vars

\* Two Stop calls in a row on a handler that had been started.
C10_Witness ==
    /\ ctl.op = "stop"
    /\ ctl.stopsInRow = 2
    /\ client.subs > 0
    /\ ~client.connected
    /\ ~crashed

----------------------------------------------------------------------------
(* Properties of Run.                                                      *)

\* The last call on the controlling thread was Run, and it has returned.
RunReturned == ctl.op = "run" /\ ctl.pc = "idle"

\* C11: when Run has returned, Disconnect has been issued on the client
\* during that Run and the client is disconnected, whether Start failed or
\* the signal arrived; a Run whose Start succeeded has returned only after
\* the signal; and while Run waits for the signal its Start has succeeded
\* and it has issued no Disconnect yet.
C11_RunDisconnectsOnReturn ==
    /\ RunReturned =>
          /\ ctl.start.disconnects >= 1
          /\ ~client.connected
          /\ ~IsError(ctl.start.result) => ctl.start.interrupted
          /\ IsError(ctl.start.result) =>
                /\ ~ctl.start.interrupted
                /\ ctl.start.result.wrap[1] = "Starting nats handler"
    /\ (ctl.op = "run" /\ ctl.pc = "r_wait") =>
          /\ ~ctl.start.interrupted
          /\ ctl.start.disconnects = 0
          /\ ctl.start.connectOKAt > 0
          /\ ctl.start.subscribeCalls = 1
    /\ ctl.start.interrupted => ~IsError(ctl.start.result)

\* A Run whose Start connected and then failed to subscribe has returned:
\* the connection it had made is closed.
C11_Witness ==
    /\ RunReturned
    /\ ctl.start.connectOKAt > 0
    /\ IsError(ctl.start.result)
    /\ ctl.start.disconnects = 1
    /\ ~client.connected

----------------------------------------------------------------------------
(* Properties of the connection info.                                      *)

\* The user-info holds no password, or an empty one.
PasswordMissingOrEmpty(user) == ~Password(user).isSet \/ Password(user).password = ""

\* C12, as stated: a Start that read a bus URL with user-info has called
\* Connect only if the user-info holds a username and a non-empty
\* password; when the password is absent or empty, Start has returned the
\* credential error and has not called Connect.
C12_CredentialsFailClosed ==
    /\ (ctl.start.userinfo # "none" /\ ctl.start.connectCalls > 0)
          => /\ Username(ctl.start.userinfo) # ""
             /\ Password(ctl.start.userinfo).isSet
             /\ Password(ctl.start.userinfo).password # ""
    /\ (ctl.start.userinfo # "none" /\ PasswordMissingOrEmpty(ctl.start.userinfo)
           /\ ctl.pc # "s_register")
          => /\ StartReturned
             /\ ctl.start.connectCalls = 0
             /\ ctl.start.result =
                   WrapError(NewError("No password set for connection"),
                             "Getting connection info")

\* C12, in the code: a user-info without a password (user@) makes
\* Start return the credential error before any Connect; every other
\* user-info, an empty password (user:@) included, goes on to Connect with
\* the username and password as they stand in the URL.
C12_AbsentPasswordFailsClosed ==
    /\ (ctl.start.userinfo = "useronly" /\ ctl.pc # "s_register")
          => /\ StartReturned
             /\ ctl.start.connectCalls = 0
             /\ ctl.start.result =
                   WrapError(NewError("No password set for connection"),
                             "Getting connection info")
    /\ ctl.start.connectCalls > 0
          => /\ ctl.start.conn.auth = ctl.start.userinfo
             /\ ctl.start.userinfo # "useronly"
             /\ ctl.start.conn.username = Username(ctl.start.conn.auth)
             /\ ctl.start.userinfo # "none"
                   => ctl.start.conn.password = Password(ctl.start.conn.auth).password

\* A Start that read user:@ and went on to connect with an empty password.
C12_Witness ==
    /\ ctl.start.userinfo = "userempty"
    /\ ctl.start.connectOKAt > 0
    /\ ctl.start.conn.username = "user"
    /\ ctl.start.conn.password = ""

----------------------------------------------------------------------------
(* Properties of the peer-certificate check.                               *)

\* The pattern as the claim gives it,
\* "^[a-zA-Z0-9*-]*\\.nats.bosh-internal$": a literal dot before the
\* trust domain.
LiteralDotPattern ==
    <<StarClass, Lit(".")>> \o Lits(NatsChars) \o <<AnyChar>> \o Lits(BoshInternalChars)

\* Some non-empty chain has a leaf whose common name matches the pattern
\* with a literal dot before the trust domain.
SomeLeafMatchesLiteralDot(chains) ==
    \E k \in 1..Len(chains) :
        /\ Len(chains[k]) > 0
        /\ MatchString(LiteralDotPattern, chains[k][1])

\* C13, as stated: VerifyPeerCertificate returns success if and only if
\* some non-empty verified chain has a leaf common name matching
\* ^[a-zA-Z0-9*-]*\.nats.bosh-internal$ with a literal dot before the trust
\* domain; no chains, empty chains only and the leaf evil.example.com are
\* rejected, worker-7.nats.bosh-internal is accepted; and a Connect under
\* TLS succeeds only with chains that were accepted.
C13_AcceptsIffLeafMatches ==
    /\ ctl.start.verify # "none" =>
          /\ (ctl.start.verify = "nil") = SomeLeafMatchesLiteralDot(ctl.start.peer)
          /\ ctl.start.peer \in { <<>>, << <<>> >>, << <<>>, <<>> >>, << <<EvilName>> >> }
                => ctl.start.verify = "error"
          /\ ctl.start.peer = << <<WorkerName>> >> => ctl.start.verify = "nil"
    /\ (ctl.start.conn.tls /\ ctl.start.connectOKAt > 0) => ctl.start.verify = "nil"

\* C13, in the code: the same with the pattern as the code
\* writes it, where the character before "nats" is any character.
C13_AcceptsIffLeafMatchesAnyChar ==
    /\ ctl.start.verify # "none" =>
          /\ (ctl.start.verify = "nil") =
                (\E k \in 1..Len(ctl.start.peer) :
                    /\ Len(ctl.start.peer[k]) > 0
                    /\ MatchString(CommonNamePattern, ctl.start.peer[k][1]))
          /\ ctl.start.peer \in { <<>>, << <<>> >>, << <<>>, <<>> >>, << <<EvilName>> >> }
                => ctl.start.verify = "error"
          /\ ctl.start.peer = << <<WorkerName>> >> => ctl.start.verify = "nil"
          /\ SomeLeafMatchesLiteralDot(ctl.start.peer) => ctl.start.verify = "nil"
    /\ (ctl.start.conn.tls /\ ctl.start.connectOKAt > 0) => ctl.start.verify = "nil"

\* A handshake that was accepted, and the Connect went through, on a leaf
\* name that has no dot before "nats".
C13_Witness ==
    /\ ctl.start.connectOKAt > 0
    /\ ctl.start.verify = "nil"
    /\ ctl.start.peer =
          << <<WorkerChars \o <<"X">> \o NatsChars \o <<".">> \o BoshInternalChars>> >>

----------------------------------------------------------------------------
(* Replies and audit events per message and per handler.                   *)

\* C14, as stated: at most one reply Publish is made while one delivered
\* message is processed, whatever the number of registered handlers.
C14_AtMostOneReply ==
    \A d \in DOMAIN del : Cardinality(PublishedCalls(del[d])) <= 1

\* C14, amended: at most one reply Publish is made per handler of the
\* snapshot: a handler is run at most once per message, a run makes a
\* Publish exactly when its handler gave a response and none otherwise,
\* so the replies of a message number between 0 and the number of its
\* handlers; a delivery waiting in Publish is there for a response.
C14_AtMostOneReplyPerHandler ==
    \A d \in DOMAIN del :
        LET r == del[d]
        IN /\ Len(r.calls) <= r.snap.len
           /\ \A i, j \in 1..Len(r.calls) : r.calls[i].f = r.calls[j].f => i = j
           /\ \A i \in 1..Len(r.calls) :
                 (r.calls[i].pub # "none") = (r.calls[i].outcome = "resp")
           /\ Cardinality(PublishedCalls(r)) <= r.snap.len
           /\ r.pc = "publish" => r.out = "resp" /\ Len(r.calls) < r.snap.len

\* Three handlers answered one message: three replies.
C14_Witness ==
    \E d \in DOMAIN del :
        /\ del[d].pc = "done"
        /\ Cardinality(PublishedCalls(del[d])) = 3

\* C15, as stated: when a message has been processed exactly one audit
\* event has been emitted for it: a success-severity one if no handler
\* failed, else a failure-severity one and no success-severity one.
C15_ExactlyOneEventPerMessage ==
    \A d \in DOMAIN del :
        LET r == del[d]
        IN (r.pc = "done" /\ Len(r.calls) > 0)
           => /\ Cardinality(EventCalls(r, "Err") \cup EventCalls(r, "Debug")) = 1
              /\ ~SomeHandlerFailed(r) => Cardinality(EventCalls(r, "Debug")) = 1
              /\ SomeHandlerFailed(r)
                    => /\ Cardinality(EventCalls(r, "Err")) = 1
                       /\ EventCalls(r, "Debug") = {}

\* C15, amended: audit events are per handler, not per message.  Every run
\* of handleNatsMsg calls generateCEFLog exactly once, with failure
\* severity when its handler failed or its reply could not be published
\* and with success severity otherwise, and that call emits at most one
\* event, of that severity, to the matching sink; when the callback
\* returns there has been one such call for each handler of the snapshot.
C15_OneEventPerHandler ==
    \A d \in DOMAIN del :
        LET r == del[d]
        IN /\ r.pc = "done" => Len(r.calls) = r.snap.len
           /\ \A i \in 1..Len(r.calls) :
                 LET c == r.calls[i]
                     failed == HandlerFailed(c) \/ c.pub = "fail"
                 IN /\ c.sev = IF failed THEN 7 ELSE 1
                    /\ c.event.kind \in {IF failed THEN "Err" ELSE "Debug", "none", "panic"}
                    /\ c.event.kind \in {"Err", "Debug"} => c.event.severity = c.sev

\* One handler succeeded and another failed for the same message: a
\* success event and a failure event.
C15_Witness ==
    \E d \in DOMAIN del :
        /\ del[d].pc = "done"
        /\ \E i, j \in 1..Len(del[d].calls) :
              /\ del[d].calls[i].outcome = "nil"
              /\ del[d].calls[i].event.kind = "Debug"
              /\ del[d].calls[j].outcome = "err"
              /\ del[d].calls[j].event.kind = "Err"

\* C16, as stated: when a handler gave a response and the Publish of the
\* reply failed, the audit event of that run is the success-severity one
\* and the Publish failure produces no failure-severity event.
C16_PublishFailureKeepsSuccess ==
    \A d \in DOMAIN del :
        \A i \in 1..Len(del[d].calls) :
            LET c == del[d].calls[i]
            IN (c.outcome = "resp" /\ c.pub = "fail")
               => /\ c.sev = 1
                  /\ c.event.kind # "Err"

\* C16, amended: a failure of the reply Publish makes the verdict of that
\* run a failure: generateCEFLog is called once for the run, with
\* failure severity, so the event emitted for it (if any) goes to the
\* error sink and no success-severity event is emitted for it; only a
\* Publish that succeeded is audited with success severity.
C16_PublishFailureAuditedAsFailure ==
    \A d \in DOMAIN del :
        \A i \in 1..Len(del[d].calls) :
            LET c == del[d].calls[i]
            IN /\ c.pub = "fail"
                  => /\ c.outcome = "resp"
                     /\ c.sev = 7
                     /\ c.event.kind # "Debug"
                     /\ c.event.kind = "Err" => c.event.severity = 7
               /\ c.pub = "ok"
                  => /\ c.outcome = "resp"
                     /\ c.sev = 1
                     /\ c.event.kind # "Err"

\* A reply could not be published and was audited as a failure, and the
\* next handler was run all the same.
C16_Witness ==
    \E d \in DOMAIN del :
        /\ Len(del[d].calls) >= 2
        /\ del[d].calls[1].pub = "fail"
        /\ del[d].calls[1].event.kind = "Err"
        /\ del[d].calls[1].event.severity = 7

\* The step in which handleNatsMsg takes its err != nil branch.
FailureStep(d, cefOK) ==
    \/ HandlerReturn(d, "err", cefOK)
    \/ HandlerCall(d, cefOK) /\ ~del[d].msg.json

\* C17: the step in which a handler fails (or its request does not decode)
\* changes nothing but its own delivery: no Disconnect, no change to the
\* registry, the lock, the other deliveries; the delivery goes on to the
\* next handler of its snapshot when there is one and returns when there
\* is none; it ends otherwise only where the audit call would have ended
\* it for a handler that succeeded as well.  A delivery that has returned
\* has run every handler of its snapshot, failed ones or not; and a
\* delivery that follows one with a failure has the whole registry as its
\* snapshot, the client being still connected.
C17_HandlerFailureContained ==
    /\ [][ \A d \in DOMAIN del, cefOK \in BOOLEAN :
             FailureStep(d, cefOK) =>
                /\ UNCHANGED <<heap, handlerFuncs, lockHolder, app, ctl, client,
                               settings, hist>>
                /\ \A e \in DOMAIN del \ {d} : del'[e] = del[e]
                /\ Len(del'[d].calls) = Len(del[d].calls) + 1
                /\ HandlerFailed(del'[d].calls[Len(del'[d].calls)])
                /\ del'[d].snap = del[d].snap
                /\ del'[d].pc =
                      IF generateCEFLog(settings, del[d].msg, 1, cefOK) = Panic
                      THEN "panicked"
                      ELSE IF del[d].idx < del[d].snap.len THEN "loop" ELSE "done"
                /\ del'[d].pc = "loop" => del'[d].idx = del[d].idx + 1
       ]_vars
    /\ [](\A d \in DOMAIN del :
             LET r == del[d]
             IN /\ (r.pc = "done" /\ SomeHandlerFailed(r)) => Called(r) = r.regAt
                /\ (r.afterFailure /\ r.pc # "idle")
                      => /\ r.snapAt = r.regAt
                         /\ client.connected
                         /\ r.pc = "done" => Called(r) = r.regAt)

\* The first of three handlers failed for a message, all three were run,
\* and the next message was dispatched to all three as well.
C17_Witness ==
    \E d \in DOMAIN del :
        /\ del[d].afterFailure
        /\ del[d].pc = "done"
        /\ Len(del[d].calls) = 3
        /\ HandlerFailed(del[d].calls[1])
        /\ ~HandlerFailed(del[d].calls[3])
        /\ client.connected

----------------------------------------------------------------------------
(* Properties of the registry lock.                                        *)

\* Some delivery is inside a handler or a Publish.
SomeHandlerRunning == \E d \in DOMAIN del : del[d].pc \in {"inHandler", "publish"}

\* C18: the mutex is held only by a thread between the Lock and the Unlock
\* of RegisterAdditionalFunc or of the snapshot, never by a delivery that
\* is in its range loop, inside a handler or inside Publish; so, with
\* handlers and Publish calls that may never return, every call of
\* RegisterAdditionalFunc completes and every snapshot that has begun
\* completes.
C18_LockFreeWhileHandlerRuns ==
    /\ [](/\ \A d \in DOMAIN del :
               (lockHolder = d) = (del[d].pc = "unlock")
           /\ \A t \in DOMAIN app :
               (lockHolder = t) = (app[t].pc = "locked")
           /\ lockHolder \in {NoThread} \cup DOMAIN del \cup DOMAIN app
           /\ SomeHandlerRunning =>
                \/ lockHolder = NoThread
                \/ lockHolder \in DOMAIN app
                \/ lockHolder \in DOMAIN del /\ del[lockHolder].pc = "unlock")
    /\ \A t \in Registrants \cup {Controller} :
          (app[t].pc = "call") ~> (app[t].pc = "done")
    /\ \A d \in Deliverers : (del[d].pc = "unlock") ~> (del[d].pc # "unlock")

\* A delivery is inside a handler, the other one inside a Publish, and a
\* registering thread holds the mutex.
C18_Witness ==
    /\ \E d, e \in DOMAIN del : del[d].pc = "inHandler" /\ del[e].pc = "publish"
    /\ lockHolder \in Registrants
    /\ app[lockHolder].pc = "locked"

----------------------------------------------------------------------------
(* Properties of the audit log.                                            *)

\* C19, as stated: no call of generateCEFLog panics, whatever the bus URL
\* of the settings (unparsable, without a port), the payload (not JSON) and
\* the outcome of the formatting, and the processing goes on after it; for
\* a payload that is not JSON the event emitted has empty method and
\* reply-to fields.
C19_AuditNeverRaises ==
    /\ ~crashed
    /\ \A d \in DOMAIN del :
          LET r == del[d]
          IN /\ r.pc # "panicked"
             /\ \A i \in 1..Len(r.calls) :
                   /\ r.calls[i].event # Panic
                   /\ (~r.msg.json /\ r.calls[i].event.kind \in {"Err", "Debug"})
                         => /\ r.calls[i].event.method = ""
                            /\ r.calls[i].event.reply_to = ""

\* C19, in the code: generateCEFLog panics exactly when the bus
\* URL of the settings parses and its host has no port, and then the
\* delivery ends there, short of its remaining handlers; in every other
\* case it returns, with an event whose fields are empty for a payload
\* that is not JSON.
C19_AuditRaisesOnlyWithoutPort ==
    /\ crashed <=> \E d \in DOMAIN del : del[d].pc = "panicked"
    /\ crashed => settings.url.parses /\ settings.url.port = NoPort
    /\ \A d \in DOMAIN del :
          LET r == del[d]
          IN \A i \in 1..Len(r.calls) :
                /\ r.calls[i].event = Panic => (i = Len(r.calls) /\ r.pc = "panicked")
                /\ (~r.msg.json /\ r.calls[i].event.kind \in {"Err", "Debug"})
                      => /\ r.calls[i].event.method = ""
                         /\ r.calls[i].event.reply_to = ""

\* The audit call of the first of three handlers panicked: the other two
\* were never run.
C19_Witness ==
    /\ crashed
    /\ \E d \in DOMAIN del :
          /\ del[d].pc = "panicked"
          /\ del[d].snap.len = 3
          /\ Len(del[d].calls) = 1
          /\ del[d].calls[1].event = Panic

----------------------------------------------------------------------------
(* Properties of the before-connect hook.                                  *)

\* C20: DeleteARPEntryWithIP has been called once for each Connect attempt
\* of a Start whose address has a literal IP as host, with that IP, and
\* never for one whose host is not a literal IP; a failed eviction neither
\* keeps the Connect attempt from being made nor shows in what Start
\* returns: Start's error, if any, is that of the connection info, of
\* Connect or of Subscribe, and a Start whose Connect and Subscribe
\* succeeded returns no error.
C20_ArpEvictedForLiteralIP ==
    LET st == ctl.start
        literal == Len(st.conn.addr) > 0 /\ IsLiteralIP(st.conn.addr[1])
    IN /\ Len(st.arpLog) = IF literal THEN st.connectCalls ELSE 0
       /\ st.arpCalls = Len(st.arpLog)
       /\ \A i \in 1..Len(st.arpLog) : st.arpLog[i].ip = st.conn.addr[1]
       /\ st.result.cause.op \in {"none", "url.Parse", "tls.X509KeyPair", "Connect", "Subscribe"}
       /\ (ctl.pc = "s_subscribe" \/ st.subscribeCalls > 0) => st.connectOKAt > 0
       /\ (StartReturned /\ st.connectOKAt > 0 /\ st.subscribeCalls > 0
              /\ st.result.cause.op # "Subscribe")
             => st.result = NoError

\* A Start to a literal IP whose two evictions both failed, whose second
\* Connect succeeded and which returned no error.
C20_Witness ==
    /\ ctl.pc = "idle"
    /\ ctl.op = "start"
    /\ ctl.start.connectOKAt = 2
    /\ Len(ctl.start.arpLog) = 2
    /\ \A i \in 1..2 : ctl.start.arpLog[i] = [ip |-> "10.0.0.1", ok |-> FALSE]
    /\ ctl.start.subscribeCalls = 1
    /\ ctl.start.result = NoError

----------------------------------------------------------------------------
(* The registry over the life of the component.                            *)

\* The handlers the registry holds now.
Registry == SliceContents(heap, handlerFuncs)

IsPrefix(s, t) == Len(s) <= Len(t) /\ SubSeq(t, 1, Len(s)) = s

\* How many times f stands in the sequence s.
Occurrences(f, s) == Cardinality({ i \in 1..Len(s) : s[i] = f })

\* No Start is between its append and its return.
NoStartRunning == ctl.pc \notin {"s_register", "s_connect", "s_subscribe"}

\* The first Start returned an error and the second returned none.
FailedThenSucceeded ==
    Len(hist.starts) >= 2 /\ hist.starts[1] /\ ~hist.starts[2]

\* C21: the registry only grows and a failed Start keeps its handler in
\* it.  (a) Every step of Start, RegisterAdditionalFunc, Send, Stop and of
\* a delivery leaves the registry as it was or with entries appended: the
\* old registry is a prefix of the new one.  (b) Start appends first: while
\* a Start is past its append, and after every return of Start with or
\* without an error, the registry holds the handler of Start once for
\* every Start called so far, so no return takes an entry out.  (c) A
\* message delivered when the registry holds the handlers of two Starts
\* invokes that handler twice; this is so in particular where the first
\* Start failed and the second succeeded.
C21_RegistryOnlyGrows ==
    /\ [][IsPrefix(Registry, Registry')]_vars
    /\ [](NoStartRunning => Occurrences(StartFunc, Registry) = Len(hist.starts))
    /\ [](ctl.pc \in {"s_connect", "s_subscribe"} =>
             Occurrences(StartFunc, Registry) = Len(hist.starts) + 1)
    /\ [](\A d \in DOMAIN del :
             LET r == del[d]
             IN r.pc = "done" =>
                  /\ Occurrences(StartFunc, Called(r)) =
                        Occurrences(StartFunc, r.regAt)
                  /\ \/ ~FailedThenSucceeded
                     \/ Occurrences(StartFunc, r.regAt) # 2
                     \/ Occurrences(StartFunc, Called(r)) = 2)

\* The first Start failed and left its handler registered, the second
\* succeeded with the same handler, and a message delivered after it has
\* invoked that handler twice.
C21_Witness ==
    /\ FailedThenSucceeded
    /\ Len(hist.starts) = 2
    /\ NoStartRunning
    /\ Occurrences(StartFunc, Registry) = 2
    /\ \E d \in DOMAIN del :
          /\ del[d].pc = "done"
          /\ Occurrences(StartFunc, Called(del[d])) = 2

====
